---- MODULE Spec2Model ----
(***************************************************************************)
(* A model of the kdl node parser: the position-tracking reader            *)
(* (src/unnamed/part_000, lines 1-175) and the node grammar driver         *)
(* (src/read_node.go).  The parser is a pure function of its input, so     *)
(* each function is an operator computed the way the code computes it and  *)
(* the actions apply the operators to inputs drawn from bounded sets.      *)
(*                                                                         *)
(* A byte is a one-character string.  A reader is a record                 *)
(*   [buf, off, line, pos, depth, tr]                                      *)
(* where buf/off stand for the bufio.Reader (the bytes and how many of     *)
(* them were consumed), line/pos/depth are the struct's fields, and tr is  *)
(* instrumentation: a trace of what the parser did, which the code does    *)
(* not read and which the properties are stated over.                      *)
(***************************************************************************)
EXTENDS Integers, Sequences, FiniteSets, TLC

VARIABLES r, op, nodes, err, dest, ret, before

vars == <<r, op, nodes, err, dest, ret, before>>

(***************************************************************************)
(* Bytes and runes                                                         *)
(***************************************************************************)
LF == "\n"
CR == "\r"
SP == " "
BS == "\\"
DQ == "\""
\* Lead and continuation byte of one two-byte UTF-8 sequence, and its rune.
U1 == "<C3>"
U2 == "<A9>"
RuneU == "<U+00E9>"
\* utf8.RuneError, what ReadRune yields (with size 1) for a malformed byte.
RuneError == "<U+FFFD>"
\* The zero rune / zero byte returned along with an error.
NUL == "<0>"

Digits == {"0", "1", "2", "3", "4", "5", "6", "7", "8", "9"}

Min(a, b) == IF a < b THEN a ELSE b

(***************************************************************************)
(* Errors.  Nil is Go's nil error.                                         *)
(***************************************************************************)
Nil == "nil"
EOF == "io.EOF"
ErrUnexpectedEOF == "ErrUnexpectedEOF"
errUnexpectedSemicolon == "ErrInvalidSyntax: unexpected ';' not terminating a node"
errUnexpectedRightBracket == "ErrInvalidSyntax: unexpected top-level '}'"
errUnexpectedLineCont == "ErrInvalidSyntax: unexpected top-level '\\'"
errUnexpectedSlashdash == "ErrInvalidSyntax: unexpected slashdash"
errUnexpectedBareIdentifier == "ErrInvalidSyntax: unexpected bare identifier"
errUnexpectedTokenAfterValue == "ErrInvalidSyntax: unexpected token after value"
errUnexpectedTokenAfterIdentifier == "ErrInvalidSyntax: unexpected token after identifier"
errSignificantInCont == "ErrInvalidSyntax: unexpected significant token in escline"
errInvalidInitialCharInBareIdent == "errInvalidInitialCharInBareIdent"
errInvalidBareIdent == "errInvalidBareIdent"
errInvalidValue == "ErrInvalidSyntax: invalid value"
errUnterminatedString == "ErrInvalidSyntax: unterminated string"
errInvalidTypeHint == "ErrInvalidSyntax: invalid type hint"

\* errors.Is(e, ErrInvalidSyntax) for the errors of read_node.go
WrapsInvalidSyntax(e) ==
    e \in {errUnexpectedSemicolon, errUnexpectedRightBracket, errUnexpectedLineCont,
           errUnexpectedSlashdash, errUnexpectedBareIdentifier,
           errUnexpectedTokenAfterValue, errUnexpectedTokenAfterIdentifier,
           errSignificantInCont}

(***************************************************************************)
(* Character classes (their Go definitions are not among the sources)      *)
(***************************************************************************)
isNewLine(ch) == ch \in {LF, CR}
isWhitespace(ch) == ch \in {SP, "\t"}
isValidValueTerminator(ch) == isWhitespace(ch) \/ isNewLine(ch) \/ ch \in {";", "}"}

charsSlashDash == <<"/", "-">>
charsStartComment == <<"/", "/">>
charsStartCommentBlock == <<"/", "*">>
charsEndCommentBlock == <<"*", "/">>
charsCRLF == <<CR, LF>>

(***************************************************************************)
(* The reader                                                              *)
(***************************************************************************)
EmptyTrace ==
    [blockEnds |-> {}, openComment |-> FALSE, suppressed |-> {},
     eofDepths |-> {}, stray |-> {}, esc |-> {}, nlEaten |-> {}, marks |-> {},
     open |-> 0, depths |-> {}]

wrapReader(s) ==
    [buf |-> s, off |-> 0, line |-> 1, pos |-> 0, depth |-> 0, tr |-> EmptyTrace]

Remaining(rd) == Len(rd.buf) - rd.off
AtEOF(rd) == rd.off >= Len(rd.buf)

\* bufio.Reader.ReadRune's decoding of the next bytes: the rune and its size.
RuneAt(rd) ==
    LET b == rd.buf[rd.off + 1] IN
    IF b = U1
    THEN IF Remaining(rd) >= 2 /\ rd.buf[rd.off + 2] = U2
         THEN [ch |-> RuneU, size |-> 2]
         ELSE [ch |-> RuneError, size |-> 1]
    ELSE IF b = U2
    THEN [ch |-> RuneError, size |-> 1]
    ELSE [ch |-> b, size |-> 1]

Skip(rd, n) == [rd EXCEPT !.off = Min(rd.off + n, Len(rd.buf))]

\* reader.readRune: after a carriage return the next rune is read too, and
\* only a line feed is unread again (lines 28-39).
readRune(rd) ==
    IF AtEOF(rd) THEN [r |-> rd, ch |-> NUL, err |-> EOF]
    ELSE
      LET d  == RuneAt(rd)
          r1 == Skip(rd, d.size)
      IN
      IF isNewLine(d.ch)
      THEN IF d.ch = CR /\ AtEOF(r1)
           THEN [r |-> r1, ch |-> d.ch, err |-> Nil]
           ELSE IF d.ch = CR /\ RuneAt(r1).ch = LF
           THEN [r |-> r1, ch |-> d.ch, err |-> Nil]
           ELSE IF d.ch = CR
           THEN [r |-> [Skip(r1, RuneAt(r1).size) EXCEPT !.line = @ + 1, !.pos = 0],
                 ch |-> d.ch, err |-> Nil]
           ELSE [r |-> [r1 EXCEPT !.line = @ + 1, !.pos = 0], ch |-> d.ch, err |-> Nil]
      ELSE [r |-> [r1 EXCEPT !.pos = @ + 1], ch |-> d.ch, err |-> Nil]

RECURSIVE discardRunes(_, _)
discardRunes(rd, count) ==
    IF count <= 0 THEN rd ELSE discardRunes(readRune(rd).r, count - 1)

readByte(rd) ==
    LET b  == IF AtEOF(rd) THEN NUL ELSE rd.buf[rd.off + 1]
        e  == IF AtEOF(rd) THEN EOF ELSE Nil
        r1 == Skip(rd, 1)
    IN
    IF b = LF \/ b = CR
    THEN [r |-> [r1 EXCEPT !.line = @ + 1, !.pos = 0], b |-> b, err |-> e]
    ELSE [r |-> [r1 EXCEPT !.pos = @ + 1], b |-> b, err |-> e]

discardByte(rd) == readByte(rd).r

peekBytes(rd, count) ==
    [bytes |-> SubSeq(rd.buf, rd.off + 1, Min(rd.off + count, Len(rd.buf))),
     err   |-> IF Remaining(rd) >= count THEN Nil ELSE EOF]

\* The line/column loop shared by readBytes (lines 93-112) and discardBytes
\* (lines 128-147): st is [line, pos, wasCR].
RECURSIVE TrackBytes(_, _, _)
TrackBytes(bytes, i, st) ==
    IF i > Len(bytes) THEN st
    ELSE LET b == bytes[i] IN
         IF b = LF /\ ~st.wasCR
         THEN TrackBytes(bytes, i + 1, [line |-> st.line + 1, pos |-> 0, wasCR |-> FALSE])
         ELSE IF b = CR
         THEN TrackBytes(bytes, i + 1, [line |-> st.line + 1, pos |-> 0, wasCR |-> TRUE])
         ELSE TrackBytes(bytes, i + 1, [line |-> st.line, pos |-> st.pos + 1, wasCR |-> FALSE])

Tracked(rd, bytes) ==
    LET st == TrackBytes(bytes, 1, [line |-> rd.line, pos |-> rd.pos, wasCR |-> FALSE])
    IN [rd EXCEPT !.line = st.line, !.pos = st.pos]

\* reader.readBytes: Read hands over what is buffered, at most count bytes,
\* and fails with io.EOF once nothing is left.
readBytes(rd, count) ==
    LET n == Min(count, Remaining(rd))
        p == peekBytes(rd, n)
    IN [r |-> Skip(Tracked(rd, p.bytes), n),
        err |-> IF n < count THEN EOF ELSE Nil]

discardBytes(rd, count) ==
    LET p == peekBytes(rd, count) IN
    IF p.err # Nil THEN readBytes(rd, count).r
    ELSE Skip(Tracked(rd, p.bytes), count)

peekRune(rd) ==
    IF AtEOF(rd) THEN [ch |-> NUL, err |-> EOF]
    ELSE [ch |-> RuneAt(rd).ch, err |-> Nil]

isNext(rd, expected) ==
    LET p == peekBytes(rd, Len(expected)) IN
    IF p.err # Nil THEN [ok |-> FALSE, err |-> p.err]
    ELSE [ok |-> p.bytes = expected, err |-> Nil]

(***************************************************************************)
(* Lexical scanners.  Their Go sources are not among the files; they are   *)
(* modelled from the specification's section 4.2 and from the assertions   *)
(* of src/read_value_test.go.  Every intermediate result is handed on as   *)
(* an operator argument, so that each call is written once.                *)
(***************************************************************************)
NoHint == "<no hint>"

stopModeFreestanding == "stopModeFreestanding"
stopModeSemicolon == "stopModeSemicolon"
stopModeEquals == "stopModeEquals"

\* Characters no bare identifier holds: it ends in front of them.
StructuralChars == {";", "{", "}", "(", ")", "/", BS, DQ}

EndsBareIdentifier(ch, stopMode) ==
    \/ isWhitespace(ch)
    \/ isNewLine(ch)
    \/ ch \in StructuralChars
    \/ (ch = "=" /\ stopMode = stopModeEquals)

Unescaped(ch) == IF ch = "n" THEN LF ELSE IF ch = "t" THEN "\t" ELSE ch

\* The body of a quoted string after its opening quote: acc is the text so
\* far, c the rune just read, e the rune read after a backslash.
RECURSIVE quotedTail(_, _)
quotedEscape(e, acc) ==
    IF e.err # Nil THEN [r |-> e.r, s |-> acc, err |-> errUnterminatedString]
    ELSE quotedTail(e.r, Append(acc, Unescaped(e.ch)))

quotedNext(c, acc) ==
    IF c.err # Nil THEN [r |-> c.r, s |-> acc, err |-> errUnterminatedString]
    ELSE IF c.ch = DQ THEN [r |-> c.r, s |-> acc, err |-> Nil]
    ELSE IF c.ch = BS THEN quotedEscape(readRune(c.r), acc)
    ELSE quotedTail(c.r, Append(acc, c.ch))

quotedTail(rd, acc) == quotedNext(readRune(rd), acc)

readQuotedString(rd) ==
    IF peekRune(rd).err # Nil \/ peekRune(rd).ch # DQ
    THEN [r |-> rd, s |-> <<>>, err |-> errInvalidValue]
    ELSE quotedTail(discardByte(rd), <<>>)

RECURSIVE bareTail(_, _, _)
bareTail(rd, acc, stopMode) ==
    LET p == peekRune(rd) IN
    IF p.err # Nil \/ EndsBareIdentifier(p.ch, stopMode)
    THEN [r |-> rd, id |-> acc, err |-> Nil]
    ELSE IF p.ch = "="
    THEN [r |-> rd, id |-> acc, err |-> errInvalidBareIdent]
    ELSE bareTail(readRune(rd).r, Append(acc, p.ch), stopMode)

readBareIdentifier(rd, stopMode) ==
    LET p == peekRune(rd)
        n == peekBytes(rd, 2)
    IN
    IF p.err # Nil THEN [r |-> rd, id |-> <<>>, err |-> ErrUnexpectedEOF]
    ELSE IF p.ch \in Digits \/ p.ch = "=" \/ EndsBareIdentifier(p.ch, stopMode)
    THEN [r |-> rd, id |-> <<>>, err |-> errInvalidInitialCharInBareIdent]
    ELSE IF p.ch \in {"-", "+"} /\ n.err = Nil /\ n.bytes[2] \in Digits
    THEN [r |-> rd, id |-> <<>>, err |-> errInvalidBareIdent]
    ELSE bareTail(rd, <<>>, stopMode)

quotedIdentifier(q) == [r |-> q.r, id |-> q.s, err |-> q.err, quoted |-> TRUE]
bareIdentifier(b) == [r |-> b.r, id |-> b.id, err |-> b.err, quoted |-> FALSE]

\* readIdentifier(r, stopMode) (Identifier, error, quoted bool)
readIdentifier(rd, stopMode) ==
    IF peekRune(rd).err = Nil /\ peekRune(rd).ch = DQ
    THEN quotedIdentifier(readQuotedString(rd))
    ELSE bareIdentifier(readBareIdentifier(rd, stopMode))

\* The end of a type hint: i is the identifier read after the "(".
closeTypeHint(i) ==
    IF AtEOF(i.r) THEN [r |-> i.r, hint |-> NoHint, err |-> ErrUnexpectedEOF]
    ELSE IF i.err # Nil THEN [r |-> i.r, hint |-> NoHint, err |-> i.err]
    ELSE IF peekRune(i.r).ch = ")"
    THEN [r |-> discardByte(i.r), hint |-> i.id, err |-> Nil]
    ELSE [r |-> i.r, hint |-> NoHint, err |-> errInvalidTypeHint]

\* An optional "(identifier)" in front of a node name or a value.
readMaybeTypeHint(rd) ==
    IF peekRune(rd).err # Nil \/ peekRune(rd).ch # "("
    THEN [r |-> rd, hint |-> NoHint, err |-> Nil]
    ELSE closeTypeHint(readIdentifier(discardByte(rd), stopModeFreestanding))

(***************************************************************************)
(* Values                                                                  *)
(***************************************************************************)
NewStringValue(s, hint) == [type |-> "String", value |-> s, hint |-> hint]
NewIntegerValue(n, hint) == [type |-> "Integer", value |-> n, hint |-> hint]

DigitValue(ch) ==
    CHOOSE n \in 0..9 : ch = <<"0", "1", "2", "3", "4", "5", "6", "7", "8", "9">>[n + 1]

\* Decimal digits, most significant first: acc is the value so far.
RECURSIVE digitsTail(_, _)
digitsTail(rd, acc) ==
    LET p == peekRune(rd) IN
    IF p.err # Nil \/ ~(p.ch \in Digits) THEN [r |-> rd, n |-> acc]
    ELSE digitsTail(discardByte(rd), acc * 10 + DigitValue(p.ch))

\* A number: an optional sign and decimal digits.
unsignedNumber(rd) ==
    IF peekRune(rd).err # Nil \/ ~(peekRune(rd).ch \in Digits)
    THEN [r |-> rd, n |-> 0, err |-> errInvalidValue]
    ELSE [r |-> digitsTail(rd, 0).r, n |-> digitsTail(rd, 0).n, err |-> Nil]

negated(d) == [d EXCEPT !.n = 0 - @]

readNumber(rd) ==
    IF peekRune(rd).err = Nil /\ peekRune(rd).ch = "-"
    THEN negated(unsignedNumber(discardByte(rd)))
    ELSE IF peekRune(rd).err = Nil /\ peekRune(rd).ch = "+"
    THEN unsignedNumber(discardByte(rd))
    ELSE unsignedNumber(rd)

NoValue == [type |-> "String", value |-> <<>>, hint |-> NoHint]
stringValue(q, hint) == [r |-> q.r, v |-> NewStringValue(q.s, hint), err |-> q.err]
numberValue(n, hint) == [r |-> n.r, v |-> NewIntegerValue(n.n, hint), err |-> n.err]

\* The value after its optional type hint h.
hintedValue(h) ==
    IF h.err # Nil THEN [r |-> h.r, v |-> NoValue, err |-> h.err]
    ELSE IF peekRune(h.r).err # Nil
    THEN [r |-> h.r, v |-> NoValue, err |-> ErrUnexpectedEOF]
    ELSE IF peekRune(h.r).ch = DQ
    THEN stringValue(readQuotedString(h.r), h.hint)
    ELSE IF peekRune(h.r).ch \in Digits \cup {"-", "+"}
    THEN numberValue(readNumber(h.r), h.hint)
    ELSE [r |-> h.r, v |-> NoValue, err |-> errInvalidValue]

\* readValue: an optional type hint, then the scanner the next character selects.
readValue(rd) == hintedValue(readMaybeTypeHint(rd))

(***************************************************************************)
(* Nodes                                                                   *)
(***************************************************************************)
NoProps == [k \in {} |-> NoHint]

NewNode(name) ==
    [hint |-> NoHint, name |-> name, args |-> <<>>, props |-> NoProps, children |-> <<>>]

AddArg(node, v) == [node EXCEPT !.args = Append(@, v)]
\* the last write to a key wins
SetPropValue(node, key, v) == [node EXCEPT !.props = (key :> v) @@ @]
AddChildren(node, children) == [node EXCEPT !.children = @ \o children]

(***************************************************************************)
(* Comments, whitespace and line continuations (read_node.go, 255-381)     *)
(***************************************************************************)
\* skipUntilNewLine discards up to the next newline or the end of input;
\* with afterBreak the newline (or CR LF pair) goes too.  It never fails on
\* an in-memory input: the end of input is a nil return.
RECURSIVE skipUntilNewLine(_, _)
skipUntilNewLine(rd, afterBreak) ==
    IF isNext(rd, charsCRLF).ok
    THEN [r |-> IF afterBreak THEN discardBytes(rd, 2) ELSE discardByte(rd), err |-> Nil]
    ELSE IF peekRune(rd).err # Nil
    THEN [r |-> rd, err |-> Nil]
    ELSE IF isNewLine(peekRune(rd).ch)
    THEN [r |-> IF afterBreak THEN discardByte(rd) ELSE rd, err |-> Nil]
    ELSE skipUntilNewLine(discardByte(rd), afterBreak)

\* The input ended inside a block comment (lines 339-341, 350-352): the
\* lookahead's error is returned.  tr.openComment notes it.
endInComment(rd, e) == [r |-> [rd EXCEPT !.tr.openComment = TRUE], err |-> e]

\* The inner loop of a block comment (lines 335-365), after its "/*".
RECURSIVE skipCommentBlock(_, _)
skipCommentBlock(rd, depth) ==
    IF isNext(rd, charsStartCommentBlock).err # Nil
    THEN endInComment(rd, isNext(rd, charsStartCommentBlock).err)
    ELSE IF isNext(rd, charsStartCommentBlock).ok
    THEN skipCommentBlock(discardBytes(rd, 2), depth + 1)
    ELSE IF isNext(rd, charsEndCommentBlock).err # Nil
    THEN endInComment(rd, isNext(rd, charsEndCommentBlock).err)
    ELSE IF isNext(rd, charsEndCommentBlock).ok /\ depth - 1 <= 0
    THEN [r |-> discardBytes(rd, 2), err |-> Nil]
    ELSE IF isNext(rd, charsEndCommentBlock).ok
    THEN skipCommentBlock(discardBytes(rd, 2), depth - 1)
    ELSE skipCommentBlock(discardByte(rd), depth)

\* tr.nlEaten gets the offset behind a newline that the skip s of a "//"
\* comment starting at offset from consumed outside a line continuation.
notedNewline(s, from, escapedLine) ==
    IF ~escapedLine /\ s.r.off > from + 2 /\ isNewLine(s.r.buf[s.r.off])
    THEN [s EXCEPT !.r.tr.nlEaten = @ \cup {s.r.off}]
    ELSE s

\* What readUntilSignificant does on meeting "//" (lines 325-328).
skipLineComment(rd, escapedLine) ==
    notedNewline(skipUntilNewLine(discardBytes(rd, 2), TRUE), rd.off, escapedLine)

\* The line continuation branch (lines 318-322): the backslash goes, and
\* escapedLine is set.  tr.esc gets the offset of the backslash.
takeBackslash(rd) == [discardByte(rd) EXCEPT !.tr.esc = @ \cup {rd.off}]

RECURSIVE untilSignificant(_, _, _)

\* "continue outer" after the skip s of a block comment or of the newline
\* of a line continuation; its error is returned.
continueOuter(s, insideNode, escapedLine) ==
    IF s.err # Nil THEN s ELSE untilSignificant(s.r, insideNode, escapedLine)

\* The outer loop of readUntilSignificant, with its local escapedLine.
untilSignificant(rd, insideNode, escapedLine) ==
    IF peekRune(rd).err # Nil THEN [r |-> rd, err |-> peekRune(rd).err]
    ELSE IF isWhitespace(peekRune(rd).ch)
    THEN untilSignificant(discardBytes(rd, RuneAt(rd).size), insideNode, escapedLine)
    ELSE IF peekRune(rd).ch = BS /\ insideNode
    THEN untilSignificant(takeBackslash(rd), insideNode, TRUE)
    ELSE IF isNext(rd, charsStartComment).ok
    THEN skipLineComment(rd, escapedLine)
    ELSE IF isNext(rd, charsStartCommentBlock).ok
    THEN continueOuter(skipCommentBlock(discardBytes(rd, 2), 1), insideNode, escapedLine)
    ELSE IF escapedLine /\ isNewLine(peekRune(rd).ch)
    THEN continueOuter(skipUntilNewLine(rd, TRUE), insideNode, FALSE)
    ELSE IF escapedLine
    THEN [r |-> rd, err |-> errSignificantInCont]
    ELSE [r |-> rd, err |-> Nil]

readUntilSignificant(rd, insideNode) == untilSignificant(rd, insideNode, FALSE)

(***************************************************************************)
(* Arguments and properties (read_node.go, 183-253)                        *)
(***************************************************************************)
\* readArgOrProp with the quoted tests of lines 199 and 208 left out: a
\* bare identifier becomes a string argument too.
identifierArgumentAnyToken(node, discard, i) ==
    [r |-> i.r,
     node |-> IF ~discard THEN AddArg(node, NewStringValue(i.id, NoHint)) ELSE node,
     err |-> Nil]

\* A token read as an identifier and not followed by "=" (lines 198-214).
identifierArgument(node, discard, i) ==
    IF i.quoted
    THEN [r |-> i.r,
          node |-> IF ~discard THEN AddArg(node, NewStringValue(i.id, NoHint)) ELSE node,
          err |-> Nil]
    ELSE [r |-> i.r, node |-> node, err |-> errUnexpectedBareIdentifier]

\* The value v of the property named key (lines 217-224).
property(node, discard, key, v) ==
    IF v.err # Nil THEN [r |-> v.r, node |-> node, err |-> v.err]
    ELSE [r |-> v.r,
          node |-> IF ~discard THEN SetPropValue(node, key, v.v) ELSE node,
          err |-> Nil]

\* The branch taken once the identifier i was read (lines 196-228).
afterIdentifier(node, discard, i) ==
    IF peekRune(i.r).err = EOF \/ isValidValueTerminator(peekRune(i.r).ch)
    THEN identifierArgument(node, discard, i)
    ELSE IF peekRune(i.r).ch = "="
    THEN property(node, discard, i.id, readValue(discardByte(i.r)))
    ELSE [r |-> i.r, node |-> node, err |-> errUnexpectedTokenAfterIdentifier]

\* The fall-through: the positional value v (lines 234-252).
argumentValue(node, discard, hint, v) ==
    IF v.err # Nil THEN [r |-> v.r, node |-> node, err |-> v.err]
    ELSE IF peekRune(v.r).err = EOF
            \/ (peekRune(v.r).err = Nil /\ isValidValueTerminator(peekRune(v.r).ch))
    THEN [r |-> v.r,
          node |-> IF ~discard THEN AddArg(node, [v.v EXCEPT !.hint = hint]) ELSE node,
          err |-> Nil]
    ELSE [r |-> v.r, node |-> node, err |-> errUnexpectedTokenAfterValue]

\* Without a type hint the token is first read as an identifier i
\* (lines 193-232); a token that is none is read as a value.
identifierOrValue(node, discard, i) ==
    IF i.err = Nil THEN afterIdentifier(node, discard, i)
    ELSE argumentValue(node, discard, NoHint, readValue(i.r))

\* The argument or property after its optional type hint h.
hintedArgOrProp(node, discard, h) ==
    IF h.err # Nil THEN [r |-> h.r, node |-> node, err |-> h.err]
    ELSE IF h.hint = NoHint
    THEN identifierOrValue(node, discard, readIdentifier(h.r, stopModeEquals))
    ELSE argumentValue(node, discard, h.hint, readValue(h.r))

readArgOrProp(rd, node, discard) == hintedArgOrProp(node, discard, readMaybeTypeHint(rd))

(***************************************************************************)
(* Nodes (read_node.go, 16-175)                                            *)
(***************************************************************************)
\* readNodes with the depth test of lines 24 and 33 left out: the end of
\* input ends the loop successfully at every depth.
endBetweenNodesAnyDepth(rd, e) ==
    [r |-> IF e = EOF THEN [rd EXCEPT !.tr.eofDepths = @ \cup {rd.depth}] ELSE rd,
     err |-> IF e = EOF THEN Nil ELSE e,
     stop |-> TRUE]

\* What readNodes does with an error met between nodes (lines 23-28, 32-37):
\* the end of input at depth 0 is a success.  tr.eofDepths gets the depth.
endBetweenNodes(rd, e) ==
    [r |-> IF e = EOF THEN [rd EXCEPT !.tr.eofDepths = @ \cup {rd.depth}] ELSE rd,
     err |-> IF e = EOF /\ rd.depth = 0 THEN Nil ELSE e,
     stop |-> TRUE]

\* tr.stray gets a token that ends the loop between nodes: the character,
\* the depth it was met at and the offset in front of it.
Stray(rd, ch) ==
    [rd EXCEPT !.tr.stray = @ \cup {[ch |-> ch, depth |-> rd.depth, at |-> rd.off]}]

\* readNodes with the depth test of line 44 left out: a "}" ends the loop
\* without error at every depth.
atNodeStartBraceUnchecked(rd, ch) ==
    IF ch = ";"
    THEN [r |-> Stray(rd, ch), err |-> errUnexpectedSemicolon, stop |-> TRUE]
    ELSE IF ch = "}"
    THEN [r |-> discardByte(Stray(rd, ch)), err |-> Nil, stop |-> TRUE]
    ELSE IF ch = BS
    THEN [r |-> Stray(rd, ch), err |-> errUnexpectedLineCont, stop |-> TRUE]
    ELSE [r |-> rd, err |-> Nil, stop |-> FALSE]

\* What readNodes does with the first character after the insignificant
\* ones when it is no newline (lines 39-54).  stop: readNodes returns.
atNodeStart(rd, ch) ==
    IF ch = ";"
    THEN [r |-> Stray(rd, ch), err |-> errUnexpectedSemicolon, stop |-> TRUE]
    ELSE IF ch = "}"
    THEN [r |-> discardByte(Stray(rd, ch)),
          err |-> IF rd.depth = 0 THEN errUnexpectedRightBracket ELSE Nil,
          stop |-> TRUE]
    ELSE IF ch = BS
    THEN [r |-> Stray(rd, ch), err |-> errUnexpectedLineCont, stop |-> TRUE]
    ELSE [r |-> rd, err |-> Nil, stop |-> FALSE]

RECURSIVE betweenNodes(_)

\* After a newline between nodes was skipped (lines 56-59).
afterNewline(k) ==
    IF k.err # Nil THEN [r |-> k.r, err |-> k.err, stop |-> TRUE]
    ELSE betweenNodes(k.r)

\* After the insignificant characters between nodes were skipped (lines 23-59).
afterInsignificant(s) ==
    IF s.err # Nil THEN endBetweenNodes(s.r, s.err)
    ELSE IF peekRune(s.r).err # Nil THEN endBetweenNodes(s.r, peekRune(s.r).err)
    ELSE IF ~isNewLine(peekRune(s.r).ch) THEN atNodeStart(s.r, peekRune(s.r).ch)
    ELSE afterNewline(skipUntilNewLine(s.r, TRUE))

\* The inner loop of readNodes (lines 21-60).
betweenNodes(rd) == afterInsignificant(readUntilSignificant(rd, FALSE))

\* tr.suppressed gets the extent of a unit a slashdash silenced: from the
\* marker to the end of the unit (for a children block, its "}").
Suppressed(rd, slashdash, from) ==
    IF slashdash
    THEN [rd EXCEPT !.tr.suppressed = @ \cup {[from |-> from, to |-> rd.off]}]
    ELSE rd

\* tr.open counts the children blocks entered and not yet left, and
\* tr.depths gets r.depth beside that count whenever a block is entered or
\* left.
Observed(rd) ==
    [rd EXCEPT !.tr.depths = @ \cup {[depth |-> rd.depth, open |-> rd.tr.open]}]
Opened(rd) == Observed([rd EXCEPT !.tr.open = @ + 1])
Closed(rd) == Observed([rd EXCEPT !.tr.open = @ - 1])

\* tr.blockEnds gets the offset behind the "}" that readNodes consumed and
\* the offset readNode goes on from.
BlockEnd(rd, closed) ==
    [rd EXCEPT !.tr.blockEnds = @ \cup {[closed |-> closed, left |-> rd.off]}]

\* readNode without the r.depth-- of line 161.
leaveBlockKeepsDepth(rd) == Closed(BlockEnd(discardByte(rd), rd.off))

\* Leaving a children block (lines 161 and 167).
leaveBlock(rd) == Closed(BlockEnd(discardByte([rd EXCEPT !.depth = @ - 1]), rd.off))

\* Entering a children block (lines 155-156).
enterBlock(rd) == Opened([discardByte(rd) EXCEPT !.depth = @ + 1])

RECURSIVE readNodesFrom(_, _)
RECURSIVE nodeBody(_, _)

\* The end of a node at a newline or a ";" (lines 137-148) and at a "}"
\* (lines 149-153).
endNode(rd, node, ch, slashdash) ==
    [r |-> IF isNewLine(ch) THEN discardRunes(rd, 1)
           ELSE IF ch = ";" THEN discardByte(rd)
           ELSE rd,
     node |-> node,
     err |-> IF slashdash THEN errUnexpectedSlashdash ELSE Nil]

\* The children c of a block (lines 157-167); from is where the unit began.
children(c, node, slashdash, from) ==
    IF c.err # Nil THEN [r |-> c.r, node |-> node, err |-> c.err]
    ELSE nodeBody(leaveBlock(Suppressed(c.r, slashdash, from)),
                  IF ~slashdash THEN AddChildren(node, c.nodes) ELSE node)

\* The outcome a of readArgOrProp (lines 169-172).
argOrProp(a, slashdash, from) ==
    IF a.err # Nil THEN a
    ELSE nodeBody(Suppressed(a.r, slashdash, from), a.node)

\* The unit met in a node's body after the skip s2 (lines 124-173).
unit(s2, node, slashdash, from) ==
    IF s2.err # Nil
    THEN [r |-> s2.r, node |-> node,
          err |-> IF s2.err = EOF THEN errUnexpectedSlashdash ELSE s2.err]
    ELSE IF peekRune(s2.r).err # Nil
    THEN [r |-> s2.r, node |-> node, err |-> peekRune(s2.r).err]
    ELSE IF isNewLine(peekRune(s2.r).ch) \/ peekRune(s2.r).ch \in {";", "}"}
    THEN endNode(s2.r, node, peekRune(s2.r).ch, slashdash)
    ELSE IF peekRune(s2.r).ch = "{"
    THEN children(readNodesFrom(enterBlock(s2.r), <<>>), node, slashdash, from)
    ELSE argOrProp(readArgOrProp(s2.r, node, slashdash), slashdash, from)

\* The slashdash lookahead of readNode (lines 119-122) and of readNodes
\* (lines 68-70): the marker is discarded.
hasSlashdash(rd) == isNext(rd, charsSlashDash).ok

\* tr.marks gets a slashdash marker that was consumed: its offset, and
\* whether it stood in a node's body.
Marked(rd, at, inBody) == [rd EXCEPT !.tr.marks = @ \cup {[at |-> at, inBody |-> inBody]}]

afterSlashdash(rd, inBody) ==
    IF hasSlashdash(rd) THEN Marked(discardBytes(rd, 2), rd.off, inBody) ELSE rd

\* One turn of readNode's loop after the skip s (lines 111-130).
bodyTurn(s, node) ==
    IF s.err # Nil
    THEN [r |-> s.r, node |-> node, err |-> IF s.err = EOF THEN Nil ELSE s.err]
    ELSE unit(readUntilSignificant(afterSlashdash(s.r, TRUE), TRUE), node,
              hasSlashdash(s.r), s.r.off)

\* The loop of readNode (lines 109-174).
nodeBody(rd, node) == bodyTurn(readUntilSignificant(rd, TRUE), node)

\* The node after its name i (lines 102-107).
namedNode(i, hint) ==
    IF i.err # Nil
    THEN [r |-> i.r, node |-> [NewNode(<<>>) EXCEPT !.hint = hint], err |-> i.err]
    ELSE nodeBody(i.r, [NewNode(i.id) EXCEPT !.hint = hint])

\* The node after its optional type hint h (lines 96-102).
hintedNode(h) ==
    IF h.err # Nil THEN [r |-> h.r, node |-> NewNode(<<>>), err |-> h.err]
    ELSE namedNode(readIdentifier(h.r, stopModeSemicolon), h.hint)

readNode(rd) == hintedNode(readMaybeTypeHint(rd))

\* The node n that readNode returned (lines 81-88): acc is nodes so far.
readOne(n, acc, slashdash, from) ==
    IF n.err # Nil THEN [r |-> n.r, nodes |-> acc, err |-> n.err]
    ELSE readNodesFrom(Suppressed(n.r, slashdash, from),
                       IF ~slashdash THEN Append(acc, n.node) ELSE acc)

\* After the skip s behind the slashdash lookahead (lines 72-81).
nodeAfterSkip(s, acc, slashdash, from) ==
    IF s.err # Nil
    THEN [r |-> s.r, nodes |-> acc,
          err |-> IF s.err = EOF THEN errUnexpectedSlashdash ELSE s.err]
    ELSE readOne(readNode(s.r), acc, slashdash, from)

\* One turn of readNodes' outer loop after its inner loop b (lines 62-81).
nodesTurn(b, acc) ==
    IF b.stop THEN [r |-> b.r, nodes |-> acc, err |-> b.err]
    ELSE IF isNext(b.r, charsSlashDash).err # Nil
    THEN [r |-> b.r, nodes |-> acc, err |-> isNext(b.r, charsSlashDash).err]
    ELSE nodeAfterSkip(readUntilSignificant(afterSlashdash(b.r, FALSE), TRUE), acc,
                       hasSlashdash(b.r), b.r.off)

\* The outer loop of readNodes (lines 20-89): acc is nodes so far.
readNodesFrom(rd, acc) == nodesTurn(betweenNodes(rd), acc)

readNodes(rd) == readNodesFrom(rd, <<>>)

(***************************************************************************)
(* The state machine.  r is the reader, op the operation applied last,     *)
(* nodes/err what readNodes returned, dest the node readArgOrProp fills,   *)
(* ret the rune or byte a reader operation returned, and before the        *)
(* reader (and the discard flag) the last operation started from.          *)
(***************************************************************************)
Strings(alphabet, n) == UNION {[1..k -> alphabet] : k \in 0..n}

\* A node that already has an argument and a property.
DestNode ==
    [NewNode(<<"n">>) EXCEPT !.args = <<NewIntegerValue(7, NoHint)>>,
                             !.props = (<<"a">> :> NewIntegerValue(7, NoHint))]

InitWith(s) ==
    /\ r = wrapReader(s)
    /\ op = "none"
    /\ nodes = <<>>
    /\ err = Nil
    /\ dest = DestNode
    /\ ret = NUL
    /\ before = [r |-> wrapReader(s), discard |-> FALSE]

Parsed(res) == r' = res.r /\ nodes' = res.nodes /\ err' = res.err

\* readNodes on a fresh reader: the whole document.
ParseDocument ==
    /\ op = "none"
    /\ Parsed(readNodes(r))
    /\ op' = "readNodes"
    /\ UNCHANGED <<dest, ret, before>>

\* Where readNode calls readArgOrProp (lines 111-169): nothing insignificant
\* is ahead and the next character neither ends the node nor opens a block.
AtArgument(rd) ==
    /\ ~AtEOF(rd)
    /\ readUntilSignificant(rd, TRUE) = [r |-> rd, err |-> Nil]
    /\ ~(isNewLine(peekRune(rd).ch) \/ peekRune(rd).ch \in {";", "{", "}"})

Filled(a) == r' = a.r /\ dest' = a.node /\ err' = a.err

\* readArgOrProp(r, &dest, discard)
ArgOrProp(discard) ==
    /\ op = "none"
    /\ AtArgument(r)
    /\ Filled(readArgOrProp(r, dest, discard))
    /\ op' = "readArgOrProp"
    /\ before' = [r |-> r, discard |-> discard]
    /\ UNCHANGED <<nodes, ret>>

NextParse == ParseDocument \/ \E discard \in BOOLEAN : ArgOrProp(discard)

(***************************************************************************)
(* The reader's operations, applied one after another to one reader.       *)
(***************************************************************************)
ReaderOps == {"none", "readRune", "peekRune", "readByte", "discardBytes", "discardRunes"}

\* The reader is used until an operation has started at the end of input.
InUse == op \in ReaderOps /\ (op = "none" \/ ~AtEOF(before.r))

Returned(res, ch) == r' = res.r /\ ret' = ch /\ err' = res.err

ReadRune ==
    /\ InUse
    /\ Returned(readRune(r), readRune(r).ch)
    /\ op' = "readRune"
    /\ before' = [r |-> r, discard |-> FALSE]
    /\ UNCHANGED <<nodes, dest>>

PeekRune ==
    /\ InUse
    /\ Returned([r |-> r, err |-> peekRune(r).err], peekRune(r).ch)
    /\ op' = "peekRune"
    /\ before' = [r |-> r, discard |-> FALSE]
    /\ UNCHANGED <<nodes, dest>>

ReadByte ==
    /\ InUse
    /\ Returned(readByte(r), readByte(r).b)
    /\ op' = "readByte"
    /\ before' = [r |-> r, discard |-> FALSE]
    /\ UNCHANGED <<nodes, dest>>

DiscardBytes(count) ==
    /\ InUse
    /\ Returned([r |-> discardBytes(r, count), err |-> Nil], NUL)
    /\ op' = "discardBytes"
    /\ before' = [r |-> r, discard |-> FALSE]
    /\ UNCHANGED <<nodes, dest>>

DiscardRunes(count) ==
    /\ InUse
    /\ Returned([r |-> discardRunes(r, count), err |-> Nil], NUL)
    /\ op' = "discardRunes"
    /\ before' = [r |-> r, discard |-> FALSE]
    /\ UNCHANGED <<nodes, dest>>

MaxDiscard == 2

NextReader ==
    \/ ReadRune
    \/ PeekRune
    \/ ReadByte
    \/ \E count \in 1..MaxDiscard : DiscardBytes(count)
    \/ \E count \in 1..MaxDiscard : DiscardRunes(count)

(***************************************************************************)
(* Specifications: the same machine over inputs of different alphabets.    *)
(***************************************************************************)
\* Nodes, children blocks and terminators.
BlockChars == {"a", "{", "}", LF, ";", BS}
MaxBlockLen == 6
InitBlocks == \E s \in Strings(BlockChars, MaxBlockLen) : InitWith(s)
Spec == InitBlocks /\ [][NextParse]_vars

\* Comments.
CommentChars == {"a", "/", "*", LF, SP}
MaxCommentLen == 6
InitComments == \E s \in Strings(CommentChars, MaxCommentLen) : InitWith(s)
SpecComments == InitComments /\ [][NextParse]_vars

\* Slashdash markers in front of nodes, arguments and children blocks: the
\* input is a sequence of tokens, "/-" being one.
SlashdashTokens == {<<"a">>, <<SP>>, <<"/", "-">>, <<"{">>, <<"}">>, <<"1">>, <<";">>}
MaxSlashdashTokens == 6
RECURSIVE Flatten(_)
Flatten(tokens) ==
    IF tokens = <<>> THEN <<>> ELSE Head(tokens) \o Flatten(Tail(tokens))
InitSlashdash ==
    \E t \in Strings(SlashdashTokens, MaxSlashdashTokens) : InitWith(Flatten(t))
SpecSlashdash == InitSlashdash /\ [][NextParse]_vars

\* Line continuations.
EsclineChars == {"a", BS, SP, LF, "1"}
MaxEsclineLen == 6
InitEscline == \E s \in Strings(EsclineChars, MaxEsclineLen) : InitWith(s)
SpecEscline == InitEscline /\ [][NextParse]_vars

\* Arguments and properties.
ArgChars == {"a", DQ, "=", "1", SP, ";", "(", ")"}
MaxArgLen == 5
InitArgs == \E s \in Strings(ArgChars, MaxArgLen) : InitWith(s)
SpecArgs == InitArgs /\ [][NextParse]_vars

\* The reader alone, over bytes that include both newline bytes and a
\* two-byte rune.
ReaderBytes == {"a", CR, LF, U1, U2}
MaxReaderLen == 3
InitReader == \E s \in Strings(ReaderBytes, MaxReaderLen) : InitWith(s)
SpecReader == InitReader /\ [][NextReader]_vars

\* Slashdash markers and what can follow them in a node's body: the input
\* is a sequence of tokens, "/-" and "//" being two of them.
MarkerTokens ==
    {<<"a">>, <<SP>>, <<"/", "-">>, <<"/", "/">>, <<LF>>, <<";">>, <<"{">>, <<"}">>}
MaxMarkerTokens == 5
InitMarkers ==
    \E t \in Strings(MarkerTokens, MaxMarkerTokens) : InitWith(Flatten(t))
SpecMarkers == InitMarkers /\ [][NextParse]_vars

\* Nested children blocks.
NestingChars == {"a", "{", "}", ";"}
MaxNestingLen == 7
InitNesting == \E s \in Strings(NestingChars, MaxNestingLen) : InitWith(s)
SpecNesting == InitNesting /\ [][NextParse]_vars

(***************************************************************************)
(* Properties                                                              *)
(***************************************************************************)
\* C1: when a node body holds a children block, the block's closing "}" is
\* consumed exactly once: readNode goes on from the offset right behind the
\* "}" that readNodes consumed, and no byte after it is skipped.
C1_ClosingBraceConsumedOnce ==
    op = "readNodes" => \A e \in r.tr.blockEnds : e.left = e.closed

\* C2: an unterminated block comment is rejected: a parse in which the
\* input ended inside a block comment returns an error.
C2_UnterminatedCommentRejected ==
    op = "readNodes" /\ r.tr.openComment => err # Nil

\* s without the bytes behind offset from up to offset to.
Without(s, from, to) == SubSeq(s, 1, from) \o SubSeq(s, to + 1, Len(s))

ParsesTo(res, expected) == res.err = Nil /\ res.nodes = expected

\* The marker at offset from stands apart from what is in front of it, so
\* that deleting it and its unit joins no two tokens.
StandsApart(buf, from) ==
    from = 0 \/ isValidValueTerminator(buf[from]) \/ buf[from] = "{"

\* C3: a slashdash suppresses exactly one unit: a successful parse yields
\* what the input yields with the marker and the suppressed unit deleted.
C3_SlashdashDeletesOneUnit ==
    op = "readNodes" /\ err = Nil =>
        \A u \in r.tr.suppressed :
            StandsApart(r.buf, u.from) =>
                ParsesTo(readNodes(wrapReader(Without(r.buf, u.from, u.to))), nodes)

\* C4: the end of input is a success only between nodes at depth 0: met
\* there readNodes returns nil, met between the nodes of an unclosed
\* children block (depth > 0) it returns an error.
C4_EndOfInputOnlyAtDepthZero ==
    op = "readNodes" =>
        \A d \in r.tr.eofDepths : (d = 0 => err = Nil) /\ (d > 0 => err # Nil)

\* The input ended inside a children block, and the parse failed.
C4_Witness ==
    op = "readNodes" /\ err # Nil /\ \E d \in r.tr.eofDepths : d > 0

\* C5: between nodes a "}" at depth 0, a ";" or a backslash makes readNodes
\* return an error wrapping ErrInvalidSyntax; a "}" at depth > 0 ends its
\* block without error, and the node goes on behind it.
C5_StrayTokenRejected ==
    op = "readNodes" =>
        \A s \in r.tr.stray :
            IF s.ch = "}" /\ s.depth > 0
            THEN \E e \in r.tr.blockEnds : e.closed = s.at + 1
            ELSE WrapsInvalidSyntax(err)

\* A block was ended by its "}", and a "}" at depth 0 was rejected.
C5_Witness ==
    /\ op = "readNodes"
    /\ err = errUnexpectedRightBracket
    /\ \E s \in r.tr.stray : s.ch = "}" /\ s.depth > 0
    /\ \E s \in r.tr.stray : s.ch = "}" /\ s.depth = 0

\* From index i on, buf holds a significant character before any newline:
\* neither the end of input nor a newline nor a comment comes first.
RECURSIVE SignificantAhead(_, _)
SignificantAhead(buf, i) ==
    IF i > Len(buf) THEN FALSE
    ELSE IF isWhitespace(buf[i]) THEN SignificantAhead(buf, i + 1)
    ELSE IF isNewLine(buf[i]) THEN FALSE
    ELSE IF buf[i] = "/" /\ i < Len(buf) /\ buf[i + 1] \in {"/", "*"} THEN FALSE
    ELSE TRUE

\* C6: a backslash in a node body that is followed (after optional
\* whitespace) by a significant character, not by a newline, fails with
\* "unexpected significant token in escline".
C6_BackslashThenSignificantFails ==
    op = "readNodes" =>
        \A o \in r.tr.esc :
            SignificantAhead(r.buf, o + 2) => err = errSignificantInCont

\* C7: a failed parse yields no nodes: when readNodes returns an error, the
\* node list it returns is empty.
C7_FailedParseYieldsNoNodes ==
    op = "readNodes" /\ err # Nil => nodes = <<>>

\* C8: readUntilSignificant never consumes a newline that is not part of a
\* line continuation: the newline ending a "//" comment stays unread.
C8_NewlineLeftAfterLineComment ==
    op = "readNodes" => r.tr.nlEaten = {}

\* The token at rd is one the identifier scanner accepts, no type hint is in
\* front of it, and a valid terminator or the end of input follows it.
TerminatedIdentifier(rd) ==
    /\ readMaybeTypeHint(rd) = [r |-> rd, hint |-> NoHint, err |-> Nil]
    /\ readIdentifier(rd, stopModeEquals).err = Nil
    /\ \/ peekRune(readIdentifier(rd, stopModeEquals).r).err = EOF
       \/ isValidValueTerminator(peekRune(readIdentifier(rd, stopModeEquals).r).ch)

\* C9: in argument position a terminated identifier becomes a String
\* argument without type hint when it was quoted (unless suppressed), and
\* fails with "unexpected bare identifier" when it was bare, leaving the
\* node as it was; a suppressed unit never changes the node.
C9_IdentifierInArgumentPosition ==
    op = "readArgOrProp" =>
        /\ TerminatedIdentifier(before.r)
             /\ readIdentifier(before.r, stopModeEquals).quoted =>
               /\ err = Nil
               /\ dest = IF before.discard THEN DestNode
                         ELSE AddArg(DestNode,
                                NewStringValue(readIdentifier(before.r, stopModeEquals).id,
                                               NoHint))
        /\ TerminatedIdentifier(before.r)
             /\ ~readIdentifier(before.r, stopModeEquals).quoted =>
               err = errUnexpectedBareIdentifier /\ dest = DestNode
        /\ before.discard => dest = DestNode

\* A quoted identifier was added as the node's second argument.
C9_Witness ==
    /\ op = "readArgOrProp"
    /\ TerminatedIdentifier(before.r)
    /\ readIdentifier(before.r, stopModeEquals).quoted
    /\ ~before.discard
    /\ err = Nil
    /\ Len(dest.args) = 2
    /\ dest.args[2] = NewStringValue(<<"a">>, NoHint)

\* C10: a successful readRune returns the next unread rune and advances the
\* input by that one rune, whatever the rune is.
C10_ReadRuneAdvancesOneCodePoint ==
    op = "readRune" /\ err = Nil =>
        /\ ret = RuneAt(before.r).ch
        /\ r.off = before.r.off + RuneAt(before.r).size

\* The reader after n calls of readRune on a fresh reader over buf.
ByReadRuneAlone(buf, n) == discardRunes(wrapReader(buf), n)

\* C11: line and column do not depend on which operations consumed the
\* input: after any mix of readRune, discardRunes, discardByte and
\* discardBytes they are what readRune alone gives for the same prefix.
C11_PositionIndependentOfOperation ==
    op \in {"readRune", "discardRunes", "readByte", "discardBytes"} /\ ~AtEOF(before.r) =>
        \A n \in 0..Len(r.buf) :
            ByReadRuneAlone(r.buf, n).off = r.off =>
                /\ r.line = ByReadRuneAlone(r.buf, n).line
                /\ r.pos = ByReadRuneAlone(r.buf, n).pos

\* From index i on, buf holds nothing a slashdash could suppress: after
\* whitespace and a "//" comment comes a newline, a ";", a "}" or the end
\* of input.  (A "//" comment ends at a newline or at the end of input.)
RECURSIVE NothingToSuppress(_, _)
NothingToSuppress(buf, i) ==
    IF i > Len(buf) THEN TRUE
    ELSE IF isWhitespace(buf[i]) THEN NothingToSuppress(buf, i + 1)
    ELSE IF isNewLine(buf[i]) \/ buf[i] \in {";", "}"} THEN TRUE
    ELSE i < Len(buf) /\ buf[i] = "/" /\ buf[i + 1] = "/"

\* C12: in a node body a slashdash with nothing to suppress is an error:
\* when a newline, a ";", a "}" or the end of input follows the marker
\* (after whitespace and comments), the parse fails with "unexpected
\* slashdash".
C12_SlashdashWithNothingToSuppress ==
    op = "readNodes" =>
        \A m \in r.tr.marks :
            m.inBody /\ NothingToSuppress(r.buf, m.at + 3) => err = errUnexpectedSlashdash

\* C13: the reader's depth equals the number of children blocks open in
\* the parse: whenever a block is entered or left, and when the parse
\* returns, it is the number of blocks entered and not left, never
\* negative; and it is 0 when the parse returns successfully.
C13_DepthCountsOpenBlocks ==
    op = "readNodes" =>
        /\ \A e \in r.tr.depths : e.depth = e.open /\ e.depth >= 0
        /\ r.depth = r.tr.open
        /\ r.depth >= 0
        /\ err = Nil => r.depth = 0

\* A block inside a block was entered, both were left, and the parse
\* returned successfully.
C13_Witness ==
    /\ op = "readNodes"
    /\ err = Nil
    /\ r.depth = 0
    /\ \E e \in r.tr.depths : e.depth = 2
    /\ Cardinality(r.tr.blockEnds) = 2

\* C14: "unexpected slashdash" is returned only after a slashdash marker
\* was consumed: a parse that consumed none never fails with it.
C14_SlashdashErrorNeedsMarker ==
    op = "readNodes" /\ err = errUnexpectedSlashdash => r.tr.marks # {}

\* buf without its last byte.
Front(buf) == SubSeq(buf, 1, Len(buf) - 1)

\* buf ends in a node that is the one-byte name a and starts the document
\* or follows a terminated node; no children block is involved.
EndsInShortNode(buf) ==
    /\ Len(buf) >= 1
    /\ buf[Len(buf)] = "a"
    /\ Len(buf) = 1 \/ isNewLine(buf[Len(buf) - 1]) \/ buf[Len(buf) - 1] = ";"
    /\ \A i \in 1..Len(buf) : buf[i] # "{"

\* C15: the two-byte lookaheads do not make a short rest of the input a
\* failure: when the nodes in front parse, a document ending in a
\* one-byte node parses to those nodes and that node.
C15_ShortLastNodeParses ==
    op = "readNodes" /\ EndsInShortNode(r.buf)
                     /\ readNodes(wrapReader(Front(r.buf))).err = Nil =>
        /\ err = Nil
        /\ nodes = Append(readNodes(wrapReader(Front(r.buf))).nodes, NewNode(<<"a">>))

====
